---- MODULE Spec2Model ----
(***************************************************************************)
(* A model of pastrami's storage layer (src/pastrami/database.py): the     *)
(* Database class over the `texts` table.  Strings are sequences of        *)
(* one-character strings, timestamps are natural numbers, and the table is *)
(* a set of rows with `text_id` as primary key.                            *)
(***************************************************************************)
EXTENDS Integers, Sequences, FiniteSets, TLC

VARIABLES db, store, now, last, orig, task, app

vars == <<db, store, now, last, orig, task, app>>

(***************************************************************************)
(* Bounds of the model.                                                    *)
(***************************************************************************)
\* the clock runs from 0 to MaxTime
MaxTime == 2
\* the table holds at most MaxRows rows
MaxRows == 2

(***************************************************************************)
(* Values.                                                                 *)
(***************************************************************************)
Databases == {"d1"}

\* Python's None where a string (bytes) is expected, SQL NULL in a string column
None == <<"None">>
\* SQL NULL in the DateTime column `expires`
NullTime == -1

Times == 0..MaxTime

\* text identifiers and contents a caller may pass
TextIds == { <<>>, <<" ", " ">>, <<"a">>, <<"b", " ">> }
Contents == { <<>>, <<" ">>, <<"x">>, <<" ", "y">> }
\* (created, expires) pairs a caller may pass: never expiring, expiring when
\* created (as in test_database_methods), expiring later
Stamps == { <<0, NullTime>>, <<1, 1>>, <<0, 3>> }

\* the value uuid4() returns for a salt: no code compares the salts of two
\* rows, so one value stands for them all
Salts == { <<"u", "1">> }

\* server secrets (the `secret` argument of Database): absent, empty, non-empty
Secrets == { None, <<>>, <<"k">> }

\* connection URLs, as character sequences
Urls ==
  { <<"s","q","l","i","t","e",":","/","/","m">>,
    <<"S","Q","L","i","t","e",":","/","/","m">>,
    <<"p","o","s","t","g","r","e","s","q","l",":","/","/","h">>,
    <<"m","y","s","q","l",":","/","/","h">>,
    <<"-",">"," ","w",":","/","/","h">>,
    <<"s","q","l","i","t","e">>,
    <<"s","q","l","i","t","e",":","/","/","x">> }

\* `create` arguments of Database
Creates == BOOLEAN

Whitespace == {" "}

(***************************************************************************)
(* str.strip(): the string without its leading and trailing whitespace.    *)
(***************************************************************************)
RECURSIVE LStrip(_)
LStrip(s) ==
  IF s = <<>> THEN <<>>
  ELSE IF Head(s) \in Whitespace THEN LStrip(Tail(s)) ELSE s

RECURSIVE RStrip(_)
RStrip(s) ==
  IF s = <<>> THEN <<>>
  ELSE IF s[Len(s)] \in Whitespace THEN RStrip(SubSeq(s, 1, Len(s) - 1)) ELSE s

Strip(s) == RStrip(LStrip(s))

(***************************************************************************)
(* urlparse(url).scheme and str.lower().                                   *)
(***************************************************************************)
LowerOf == [c \in {"S", "Q", "L"} |-> CASE c = "S" -> "s" [] c = "Q" -> "q" [] c = "L" -> "l"]

LowerChar(c) == IF c \in DOMAIN LowerOf THEN LowerOf[c] ELSE c

Lower(s) == [i \in 1..Len(s) |-> LowerChar(s[i])]

Letters ==
  {"a","e","g","h","i","l","m","o","p","q","r","s","t","w","y","S","Q","L"}

SchemeChars == Letters \cup {"+", "-", "."}

\* index of the first ":" of url, 0 when there is none (str.find, 1-based)
FindColon(url) ==
  IF \E i \in 1..Len(url) : url[i] = ":"
  THEN CHOOSE i \in 1..Len(url) :
         url[i] = ":" /\ \A j \in 1..(i - 1) : url[j] # ":"
  ELSE 0

\* urllib.parse.urlparse(url).scheme
UrlScheme(url) ==
  LET i == FindColon(url) IN
  IF i > 1 /\ url[1] \in Letters
       /\ \A j \in 1..(i - 1) : url[j] \in SchemeChars
  THEN Lower(SubSeq(url, 1, i - 1))
  ELSE <<>>

\* what follows "scheme:" in the url
UrlRest(url) == SubSeq(url, FindColon(url) + 1, Len(url))

Postgresql == <<"p","o","s","t","g","r","e","s","q","l">>
Sqlite == <<"s","q","l","i","t","e">>

\* every scheme taken
SupportedScheme_Any(url) == TRUE

\* Database.__init__ accepts the url: its scheme is one of the two supported
SupportedScheme(url) == Lower(UrlScheme(url)) \in {Postgresql, Sqlite}

\* self.url, the engine url Database.__init__ derives from the url
EngineUrl(url) ==
  IF Lower(UrlScheme(url)) = Postgresql
  THEN [driver |-> "postgresql+asyncpg", rest |-> UrlRest(url)]
  ELSE [driver |-> "sqlite+aiosqlite", rest |-> UrlRest(url)]

Engines == { EngineUrl(u) : u \in { v \in Urls : SupportedScheme(v) } }

NoEngine == [driver |-> "", rest |-> <<>>]

\* the exception the driver raises when it opens a connection to the database
\* behind an engine url ("None" when it connects): the postgresql server of
\* the model is down (as 127.0.0.1:65535 in test_connect, which expects
\* ConnectionRefusedError), the sqlite file x cannot be opened
\* (sqlalchemy.exc.OperationalError), the sqlite file m can
ConnectError(url) ==
  IF url.driver = "postgresql+asyncpg" THEN "ConnectionRefusedError"
  ELSE IF url.rest = <<"/", "/", "x">> THEN "OperationalError"
  ELSE "None"

\* the database behind an engine url answers
Reachable(url) == ConnectError(url) = "None"

(***************************************************************************)
(* Crypto methods.                                                         *)
(***************************************************************************)
\* hashlib.sha256(text).hexdigest(): injective on the identifiers of the model,
\* and no identifier of TextIds is itself a digest
CalculateHash(text) == <<"sha256">> \o text

\* the key PBKDF2HMAC derives from secret + text_id with the salt
DeriveKey(secret, text_id, salt) == (secret \o text_id) \o <<"$">> \o salt

\* Fernet(key).encrypt(content), base64 encoded: the content under the key,
\* closed by the token's HMAC
FernetToken(key, content) == <<"gAAAAA">> \o key \o <<"$">> \o content \o <<"hmac">>

\* the padding of base64
Pad(n) == [i \in 1..n |-> "="]

\* base64.b64encode(token).decode(): whole groups of four characters
B64Encode(token) == token \o Pad((4 - (Len(token) % 4)) % 4)

\* b64decode discards the characters that are not of the base64 alphabet
InAlphabet(c) == c # "~"

\* base64.b64decode(encoded) returns: else it raises binascii.Error
\* ("Incorrect padding"), a subclass of ValueError
B64Decodable(encoded) == Len(SelectSeq(encoded, InAlphabet)) % 4 = 0

RECURSIVE Unpad(_)
Unpad(s) ==
  IF s # <<>> /\ s[Len(s)] = "=" THEN Unpad(SubSeq(s, 1, Len(s) - 1)) ELSE s

\* base64.b64decode(encoded), when it returns
B64Decode(encoded) == Unpad(SelectSeq(encoded, InAlphabet))

\* Database.__encrypt: (hashed text_id, encrypted content)
Encrypt(secret, text_id, salt, content) ==
  [text_id |-> CalculateHash(text_id),
   content |-> B64Encode(FernetToken(DeriveKey(secret, text_id, salt), content))]

\* Fernet(key).decrypt accepts the token: it is the token of some content
\* under the very same key; else it raises InvalidToken
ValidToken(secret, text_id, salt, token) ==
  \E c \in Contents : token = FernetToken(DeriveKey(secret, text_id, salt), c)

\* Database.__decrypt, when the token is valid
Decrypt(secret, text_id, salt, encrypted) ==
  CHOOSE c \in Contents :
    B64Decode(encrypted) = FernetToken(DeriveKey(secret, text_id, salt), c)

\* str(text.salt)
StrSalt(salt) == IF salt = None THEN <<"N", "o", "n", "e">> ELSE salt

(***************************************************************************)
(* Records.                                                                *)
(***************************************************************************)
\* the Text dict a caller passes and gets back
Text(text_id, content, created, expires) ==
  [text_id |-> text_id, content |-> content, created |-> created, expires |-> expires]

NoText == Text(None, None, NullTime, NullTime)

\* the Text dicts a caller may pass: the test's stamps with every identifier
\* and content, the other stamps with the ones that are not blank
Texts ==
  { Text(t, c, 1, 1) : t \in TextIds, c \in Contents }
    \cup { Text(t, c, st[1], st[2]) :
             t \in { <<"a">>, <<"b", " ">> }, c \in { <<"x">>, <<" ", "y">> },
             st \in Stamps }

\* the key text_id is missing from the dict the caller passes (Text is a
\* TypedDict: nothing checks its keys when the program runs); a missing
\* created is NullTime
Absent == <<"Absent">>

\* the Text dicts of a caller that leaves text_id or created out
PartialTexts ==
  { Text(Absent, c, 1, 1) : c \in { <<"x">>, <<" ">> } }
    \cup { Text(t, <<"x">>, NullTime, e) : t \in { <<"a">>, <<"b", " ">> }, e \in { NullTime, 3 } }

\* a row of the table `texts`
TextModel(text_id, salt, content, created, expires) ==
  [text_id |-> text_id, salt |-> salt, content |-> content,
   created |-> created, expires |-> expires]

\* a Database object: url, secret, create and session as __init__ sets them;
\* `disconnected` records that disconnect() closed the session since the
\* last connect()
NoDatabase ==
  [state |-> "absent", url |-> NoEngine, secret |-> None, create |-> FALSE,
   session |-> "None", disconnected |-> FALSE]

\* what the latest call did: the operation, its instance and its argument
\* (a Text, or a text_id as a Text without content), the exception it raised
\* ("None" when it returned, with the attributes of a
\* DuplicatedItemException), the Text or the count it returned, and the
\* identifiers of the records it removed; for a request, the HTTP status of
\* its response
Call(op, d, arg, error, object_id, ret, count, removed) ==
  [op |-> op, db |-> d, arg |-> arg, error |-> error,
   object_type |-> IF error = "DuplicatedItemException" THEN "text" ELSE "",
   object_id |-> object_id, ret |-> ret, count |-> count, removed |-> removed,
   url |-> <<>>, fault |-> "None", status |-> 0]

\* a text_id as the argument of a call
OfId(text_id) == Text(text_id, None, NullTime, NullTime)

\* the call returned nothing
Done(op, d) == Call(op, d, NoText, "None", None, NoText, 0, {})

\* the call raised error
Raised(op, d, arg, error) == Call(op, d, arg, error, None, NoText, 0, {})

\* the exception carrying the storage key
DuplicatedItem_StorageKey(d, text, key) ==
  Call("add_text", d, text, "DuplicatedItemException", key, NoText, 0, {})

\* add_text: raise DuplicatedItemException(object_type="text",
\* object_id=original_text_id); key is the text_id of the row, text the
\* caller's Text
DuplicatedItem(d, text, key) ==
  Call("add_text", d, text, "DuplicatedItemException", text.text_id, NoText, 0, {})

\* the check left out
NotConnected_Never(d) == FALSE

\* `if not self.session`
NotConnected(d) == db[d].session = "None"

\* the asyncio tasks that run an operation of the Record Store in steps, one
\* step from a suspension point (await) to the next
Tasks == { "t1", "t2" }

\* a task: the operation it runs and where it stands in it, the argument,
\* the rows its query returned (`text`, `texts`), the rows its session holds
\* to insert or delete at the commit, and the table as it was when the
\* operation began
Frame(op, pc, arg, texts, pending, before) ==
  [op |-> op, pc |-> pc, arg |-> arg, texts |-> texts, pending |-> pending,
   before |-> before]

\* a task that runs nothing
Idle == Frame("none", "idle", NoText, {}, {}, {})

\* the web application before it starts: its dependency has been given no
\* session yet, the background task is not created, the event loop runs
NoApp == [sessions |-> 0, purger |-> "off", loop |-> "running"]

Init ==
  /\ db = [d \in Databases |-> NoDatabase]
  /\ store = [e \in Engines |-> {}]
  /\ now = 0
  /\ last = Done("none", "d1")
  /\ orig = {}
  /\ task = [t \in Tasks |-> Idle]
  /\ app = NoApp

\* the rows of every table
AllRows == UNION { store[e] : e \in Engines }

\* the table behind the instance
Table(d) == store[db[d].url]

(***************************************************************************)
(* Database.__init__(url, create=create, secret=secret)                    *)
(***************************************************************************)
DatabaseInit(d, url, secret, create) ==
  /\ db[d].state = "absent"
  /\ IF SupportedScheme(url)
     THEN /\ db' = [db EXCEPT ![d] =
                 [state |-> "init", url |-> EngineUrl(url), secret |-> secret,
                  create |-> create, session |-> "None", disconnected |-> FALSE]]
          /\ last' = [Done("__init__", d) EXCEPT !.url = url]
     ELSE /\ db' = db
          /\ last' = [Raised("__init__", d, NoText, "ValueError") EXCEPT !.url = url]
  /\ UNCHANGED <<store, now, orig, task, app>>

(***************************************************************************)
(* Database.connect(), also run by __aenter__                              *)
(***************************************************************************)
\* the store contacted by every connect()
Contacts_Always(create) == TRUE

\* `if self.__create`: connect() opens a connection only to create the tables
Contacts(create) == create

\* connect(): `except OperationalError: raise RuntimeError`; what is not an
\* SQLAlchemyError is not caught
OnCreateError(error) == IF error = "OperationalError" THEN "RuntimeError" ELSE error

Connect(d) ==
  /\ db[d].state = "init"
  /\ IF Contacts(db[d].create) /\ ~Reachable(db[d].url)
     THEN /\ db' = db
          /\ last' = Raised("connect", d, NoText, OnCreateError(ConnectError(db[d].url)))
     ELSE /\ db' = [db EXCEPT ![d].session = "Session", ![d].disconnected = FALSE]
          /\ last' = Done("connect", d)
  /\ UNCHANGED <<store, now, orig, task, app>>

(***************************************************************************)
(* Database.disconnect(), also run by __aexit__                            *)
(***************************************************************************)
Disconnect(d) ==
  /\ db[d].state = "init"
  /\ db' = [db EXCEPT ![d].disconnected = (db[d].session # "None")]
  /\ last' = Done("disconnect", d)
  /\ UNCHANGED <<store, now, orig, task, app>>

(***************************************************************************)
(* Record Store helpers.                                                   *)
(***************************************************************************)
\* the exception of the commit raised as it is
OnCommitError_Raw(error) == error

\* `except (DataError, OperationalError): rollback; raise RuntimeError`
\* around the commit; any other exception is not caught there
OnCommitError(error) ==
  IF error \in { "DataError", "OperationalError" } THEN "RuntimeError" ELSE error

\* truth value of self.secret (bytes or None) in `if self.secret`
Truthy(secret) == secret # None /\ secret # <<>>

\* add_text: `if self.secret is not None`
AddEncrypts(secret) == secret # None

\* get_text: `if self.secret is not None: text_id = hash(text_id)`
GetHashes(secret) == secret # None

\* get_text: `if self.secret:` decrypt
GetDecrypts(secret) == Truthy(secret)

\* delete_text: `if self.secret: text_id = hash(text_id)`
DeleteHashes(secret) == Truthy(secret)

\* the check without the strip
Blank_NoStrip(s) == Len(s) < 1

\* len(s.strip()) < 1
Blank(s) == Len(Strip(s)) < 1

\* no row found, whatever the key
Matching_None(table, text_id) == {}

\* query(TextModel).filter(TextModel.text_id == text_id).first(); also the
\* rows with which the primary key of `texts` forbids another of that text_id
Matching(table, text_id) == { r \in table : r.text_id = text_id }

\* the comparison made inclusive
Expired_Inclusive(expires, t) == expires # NullTime /\ expires <= t

\* a NULL taken for a time long past
Expired_NullIsPast(expires, t) == expires < t

\* TextModel.expires < now, in SQL: never true of a NULL
Expired(expires, t) == expires # NullTime /\ expires < t

\* Column(DateTime, default=datetime.now(timezone.utc), ...): the default is
\* the value of the call, made once when the class TextModel is defined, as
\* the module is imported: the time at which the model starts
CreatedDefault == 0

\* the created of the row inserted for a Text: the column default when the
\* caller gave none
ColumnCreated(created) == IF created = NullTime THEN CreatedDefault ELSE created

\* `text["text_id"]` of a dict without that key raises KeyError
KeyMissing(text) == text.text_id = Absent

\* the row add_text builds: TextModel(**text, salt=salt)
NewRow(secret, text, salt) ==
  IF AddEncrypts(secret)
  THEN LET enc == Encrypt(secret, text.text_id, salt, text.content) IN
       TextModel(enc.text_id, salt, enc.content, ColumnCreated(text.created), text.expires)
  ELSE TextModel(text.text_id, None, text.content, ColumnCreated(text.created), text.expires)

\* InvalidToken left to propagate
OnInvalidToken_Propagates(text_id, text) == [error |-> "InvalidToken", ret |-> NoText]

\* except InvalidToken: raise ValueError("Unable to decrypt content ...")
OnInvalidToken(text_id, text) == [error |-> "ValueError", ret |-> NoText]

\* the exceptions an `except ValueError` catches: binascii.Error derives
\* from ValueError
ValueErrors == { "ValueError", "binascii.Error" }

\* the lookup and decryption of get_text on a connected instance with the
\* given secret, over the table: the exception raised ("None" when it
\* returns) and the Text returned
GetTextResult(secret, table, text_id) ==
  LET key == IF GetHashes(secret) THEN CalculateHash(text_id) ELSE text_id
      found == Matching(table, key)
  IN
  IF found = {}
  THEN [error |-> "ValueError", ret |-> NoText]
  ELSE LET text == CHOOSE r \in found : TRUE IN
       IF GetDecrypts(secret)
       THEN IF ~B64Decodable(text.content)
            THEN [error |-> "binascii.Error", ret |-> NoText]
            ELSE IF ValidToken(secret, text_id, StrSalt(text.salt),
                               B64Decode(text.content))
            THEN [error |-> "None",
                  ret |-> Text(text_id,
                               Decrypt(secret, text_id, StrSalt(text.salt), text.content),
                               text.created, text.expires)]
            ELSE OnInvalidToken(text_id, text)
       ELSE [error |-> "None",
             ret |-> Text(text_id, text.content, text.created, text.expires)]

\* what the model remembers of an insertion: the row as written, the Text
\* the caller gave and the secret of the writing instance
Written(url, row, text, secret) ==
  [url |-> url, row |-> row, text |-> text, secret |-> secret]

\* the identifiers the callers gave to the rows removed from the table of url
Removed(url, removed) ==
  { w.text.text_id : w \in { v \in orig : v.url = url /\ v.row.text_id \in
                                            { r.text_id : r \in removed } } }

\* forget the insertions of the rows removed from the table of url
Forget(url, removed) ==
  { w \in orig : ~(w.url = url /\ \E r \in removed : r.text_id = w.row.text_id) }

(***************************************************************************)
(* Database.add_text(text)                                                 *)
(***************************************************************************)
AddText(d, text) ==
  /\ db[d].state = "init"
  /\ IF NotConnected(d)
     THEN /\ last' = Raised("add_text", d, text, "BrokenPipeError")
          /\ UNCHANGED <<store, orig>>
     ELSE IF KeyMissing(text)
     THEN /\ last' = Raised("add_text", d, text, "KeyError")
          /\ UNCHANGED <<store, orig>>
     ELSE IF Blank(text.text_id) \/ Blank(text.content)
     THEN /\ last' = Raised("add_text", d, text, "ValueError")
          /\ UNCHANGED <<store, orig>>
     ELSE IF ~Reachable(db[d].url)
     THEN /\ last' = Raised("add_text", d, text, OnCommitError(ConnectError(db[d].url)))
          /\ UNCHANGED <<store, orig>>
     ELSE \E salt \in Salts :
          LET row == NewRow(db[d].secret, text, salt) IN
          IF Matching(Table(d), row.text_id) # {}
          THEN /\ last' = DuplicatedItem(d, text, row.text_id)
               /\ UNCHANGED <<store, orig>>
          ELSE /\ Cardinality(AllRows) < MaxRows
               /\ store' = [store EXCEPT ![db[d].url] = @ \cup {row}]
               /\ orig' = orig \cup {Written(db[d].url, row, text, db[d].secret)}
               /\ LET got == GetTextResult(db[d].secret, Table(d) \cup {row}, text.text_id) IN
                  last' = Call("add_text", d, text, got.error, None, got.ret, 0, {})
  /\ UNCHANGED <<db, now, task, app>>

(***************************************************************************)
(* Database.get_text(text_id)                                              *)
(***************************************************************************)
GetText(d, text_id) ==
  /\ db[d].state = "init"
  /\ IF NotConnected(d)
     THEN last' = Raised("get_text", d, OfId(text_id), "BrokenPipeError")
     ELSE IF ~Reachable(db[d].url)
     THEN last' = Raised("get_text", d, OfId(text_id), ConnectError(db[d].url))
     ELSE LET got == GetTextResult(db[d].secret, Table(d), text_id) IN
          last' = Call("get_text", d, OfId(text_id), got.error, None, got.ret, 0, {})
  /\ UNCHANGED <<db, store, now, orig, task, app>>

(***************************************************************************)
(* Database.delete_text(text_id)                                           *)
(***************************************************************************)
DeleteText(d, text_id) ==
  /\ db[d].state = "init"
  /\ IF NotConnected(d)
     THEN /\ last' = Raised("delete_text", d, OfId(text_id), "BrokenPipeError")
          /\ UNCHANGED <<store, orig>>
     ELSE IF ~Reachable(db[d].url)
     THEN /\ last' = Raised("delete_text", d, OfId(text_id), ConnectError(db[d].url))
          /\ UNCHANGED <<store, orig>>
     ELSE LET key == IF DeleteHashes(db[d].secret) THEN CalculateHash(text_id) ELSE text_id
              found == Matching(Table(d), key)
          IN
          IF found = {}
          THEN /\ last' = Raised("delete_text", d, OfId(text_id), "ValueError")
               /\ UNCHANGED <<store, orig>>
          ELSE /\ store' = [store EXCEPT ![db[d].url] = @ \ found]
               /\ orig' = Forget(db[d].url, found)
               /\ last' = Call("delete_text", d, OfId(text_id), "None", None, NoText, 0,
                               Removed(db[d].url, found))
  /\ UNCHANGED <<db, now, task, app>>

(***************************************************************************)
(* Database.purge_expired()                                                *)
(***************************************************************************)
PurgeExpired(d) ==
  /\ db[d].state = "init"
  /\ IF NotConnected(d)
     THEN /\ last' = Raised("purge_expired", d, NoText, "BrokenPipeError")
          /\ UNCHANGED <<store, orig>>
     ELSE IF ~Reachable(db[d].url)
     THEN /\ last' = Raised("purge_expired", d, NoText, ConnectError(db[d].url))
          /\ UNCHANGED <<store, orig>>
     ELSE LET texts == { r \in Table(d) : Expired(r.expires, now) } IN
          IF texts = {}
          THEN /\ last' = Done("purge_expired", d)
               /\ UNCHANGED <<store, orig>>
          ELSE /\ store' = [store EXCEPT ![db[d].url] = @ \ texts]
               /\ orig' = Forget(db[d].url, texts)
               /\ last' = Call("purge_expired", d, NoText, "None", None, NoText,
                               Cardinality(texts),
                               Removed(db[d].url, texts))
  /\ UNCHANGED <<db, now, task, app>>

(***************************************************************************)
(* The operations when session.commit() raises: the exception is an input. *)
(***************************************************************************)
\* exceptions of sqlalchemy.exc a commit raises in the model; the
\* IntegrityError is one that is not a uniqueness violation
CommitFaults == { "DataError", "OperationalError", "IntegrityError", "InterfaceError" }

\* the changes of the failed transaction kept
Rollback_Keeps(before, pending) == pending

\* session.rollback(), and the exit of `async with session.begin()` by an
\* exception: the table is as before the transaction
Rollback(before, pending) == before

\* add_text whose commit raises fault: DataError and OperationalError are
\* rolled back and raised as RuntimeError; the IntegrityError is rolled back
\* and, for want of "unique" in its message, not raised: add_text goes on
\* to `return await self.get_text(original_text_id)`
AddTextCommitFails(d, text, fault) ==
  /\ db[d].state = "init"
  /\ ~NotConnected(d)
  /\ ~Blank(text.text_id) /\ ~Blank(text.content)
  /\ Reachable(db[d].url)
  /\ \E salt \in Salts :
       LET row == NewRow(db[d].secret, text, salt)
           after == Rollback(Table(d), Table(d) \cup {row})
           got == GetTextResult(db[d].secret, after, text.text_id)
       IN
       /\ store' = [store EXCEPT ![db[d].url] = after]
       /\ orig' = IF row \in after \ Table(d)
                  THEN orig \cup {Written(db[d].url, row, text, db[d].secret)}
                  ELSE orig
       /\ last' = IF fault = "IntegrityError"
                  THEN [Call("add_text", d, text, got.error, None, got.ret, 0, {})
                          EXCEPT !.fault = fault]
                  ELSE [Raised("add_text", d, text, OnCommitError(fault))
                          EXCEPT !.fault = fault]
  /\ UNCHANGED <<db, now, task, app>>

\* delete_text whose commit raises fault
DeleteTextCommitFails(d, text_id, fault) ==
  /\ db[d].state = "init"
  /\ ~NotConnected(d)
  /\ Reachable(db[d].url)
  /\ LET key == IF DeleteHashes(db[d].secret) THEN CalculateHash(text_id) ELSE text_id
         found == Matching(Table(d), key)
         after == Rollback(Table(d), Table(d) \ found)
     IN
     /\ found # {}
     /\ store' = [store EXCEPT ![db[d].url] = after]
     /\ orig' = Forget(db[d].url, Table(d) \ after)
     /\ last' = [Raised("delete_text", d, OfId(text_id), OnCommitError(fault))
                   EXCEPT !.fault = fault]
  /\ UNCHANGED <<db, now, task, app>>

\* purge_expired whose commit raises fault
PurgeExpiredCommitFails(d, fault) ==
  /\ db[d].state = "init"
  /\ ~NotConnected(d)
  /\ Reachable(db[d].url)
  /\ LET texts == { r \in Table(d) : Expired(r.expires, now) }
         after == Rollback(Table(d), Table(d) \ texts)
     IN
     /\ texts # {}
     /\ store' = [store EXCEPT ![db[d].url] = after]
     /\ orig' = Forget(db[d].url, Table(d) \ after)
     /\ last' = [Raised("purge_expired", d, NoText, OnCommitError(fault))
                   EXCEPT !.fault = fault]
  /\ UNCHANGED <<db, now, task, app>>

(***************************************************************************)
(* The environment: time passes; a stored encrypted row is altered behind  *)
(* the program's back; another Database instance, built with another       *)
(* secret, adds its own row to the table.                                  *)
(***************************************************************************)
Tick ==
  /\ now < MaxTime
  /\ now' = now + 1
  /\ last' = Done("tick", "d1")
  /\ UNCHANGED <<db, store, orig, task, app>>

\* a ciphertext that lost its last character, one that lost its last group
\* of four, and one replaced by other bytes
CorruptedContents(content) ==
  { SubSeq(content, 1, Len(content) - 1), SubSeq(content, 1, Len(content) - 4),
    <<"~">> }

\* the salt replaced by another value, or nulled
AlteredSalts(salt) == {<<"u", "0">>, None} \ {salt}

\* a row of the table that is as the add_text of the instance wrote it
Intact(e, r) ==
  /\ r \in store[e]
  /\ \E w \in orig, d \in Databases :
       w.url = e /\ w.row = r /\ db[d].url = e /\ db[d].secret = w.secret

CorruptContent(e, r) ==
  /\ Intact(e, r)
  /\ r.salt # None
  /\ \E c \in CorruptedContents(r.content) :
       store' = [store EXCEPT ![e] = (@ \ {r}) \cup {[r EXCEPT !.content = c]}]
  /\ last' = Done("corrupt", "d1")
  /\ UNCHANGED <<db, now, orig, task, app>>

AlterSalt(e, r) ==
  /\ Intact(e, r)
  /\ r.salt # None
  /\ \E s \in AlteredSalts(r.salt) :
       store' = [store EXCEPT ![e] = (@ \ {r}) \cup {[r EXCEPT !.salt = s]}]
  /\ last' = Done("corrupt", "d1")
  /\ UNCHANGED <<db, now, orig, task, app>>

\* the insertion made by the add_text of an instance with another secret
OtherWriter(e, text, secret) ==
  /\ AddEncrypts(secret)
  /\ \E d \in Databases :
       db[d].url = e /\ AddEncrypts(db[d].secret) /\ db[d].secret # secret
  /\ ~Blank(text.text_id) /\ ~Blank(text.content)
  /\ Cardinality(AllRows) < MaxRows
  /\ \E salt \in Salts :
       LET row == NewRow(secret, text, salt) IN
       /\ Matching(store[e], row.text_id) = {}
       /\ store' = [store EXCEPT ![e] = @ \cup {row}]
       /\ orig' = orig \cup {Written(e, row, text, secret)}
  /\ last' = Done("other", "d1")
  /\ UNCHANGED <<db, now, task, app>>

\* one Database instance, from its construction on
Next ==
  \/ \E d \in Databases, url \in Urls, secret \in Secrets, create \in Creates :
       DatabaseInit(d, url, secret, create)
  \/ \E d \in Databases : Connect(d)
  \/ \E d \in Databases : Disconnect(d)
  \/ \E d \in Databases, text \in Texts : AddText(d, text)
  \/ \E d \in Databases, t \in TextIds : GetText(d, t)
  \/ \E d \in Databases, t \in TextIds : DeleteText(d, t)
  \/ \E d \in Databases : PurgeExpired(d)
  \/ Tick

Spec == Init /\ [][Next]_vars

\* the instance over a table that others write to and alter
NextTamper ==
  \/ \E d \in Databases, url \in Urls, secret \in Secrets, create \in Creates :
       DatabaseInit(d, url, secret, create)
  \/ \E d \in Databases : Connect(d)
  \/ \E d \in Databases, text \in Texts : AddText(d, text)
  \/ \E d \in Databases, t \in TextIds : GetText(d, t)
  \/ \E e \in Engines, r \in AllRows : CorruptContent(e, r)
  \/ \E e \in Engines, r \in AllRows : AlterSalt(e, r)
  \/ \E e \in Engines, text \in Texts, secret \in Secrets : OtherWriter(e, text, secret)

SpecTamper == Init /\ [][NextTamper]_vars

\* add_text(text) of a second instance, connected, built with the url and the
\* secret of d (another worker of the same application)
PeerAddText(d, text) ==
  /\ db[d].state = "init"
  /\ Reachable(db[d].url)
  /\ ~Blank(text.text_id) /\ ~Blank(text.content)
  /\ \E salt \in Salts :
       LET row == NewRow(db[d].secret, text, salt) IN
       IF Matching(Table(d), row.text_id) # {}
       THEN /\ last' = [DuplicatedItem(d, text, row.text_id) EXCEPT !.op = "peer_add_text"]
            /\ UNCHANGED <<store, orig>>
       ELSE /\ Cardinality(AllRows) < MaxRows
            /\ store' = [store EXCEPT ![db[d].url] = @ \cup {row}]
            /\ orig' = orig \cup {Written(db[d].url, row, text, db[d].secret)}
            /\ LET got == GetTextResult(db[d].secret, Table(d) \cup {row}, text.text_id) IN
               last' = Call("peer_add_text", d, text, got.error, None, got.ret, 0, {})
  /\ UNCHANGED <<db, now, task, app>>

\* two instances of one configuration over the same store
NextPeers ==
  \/ \E d \in Databases, url \in Urls, secret \in Secrets, create \in Creates :
       DatabaseInit(d, url, secret, create)
  \/ \E d \in Databases : Connect(d)
  \/ \E d \in Databases, text \in Texts : AddText(d, text)
  \/ \E d \in Databases, t \in TextIds : DeleteText(d, t)
  \/ \E d \in Databases : PurgeExpired(d)
  \/ Tick
  \/ \E d \in Databases, text \in Texts : PeerAddText(d, text)

SpecPeers == Init /\ [][NextPeers]_vars

\* the instance over a database whose commits may fail
NextFault ==
  \/ \E d \in Databases, url \in Urls, secret \in Secrets, create \in Creates :
       DatabaseInit(d, url, secret, create)
  \/ \E d \in Databases : Connect(d)
  \/ \E d \in Databases, text \in Texts : AddText(d, text)
  \/ \E d \in Databases, t \in TextIds : GetText(d, t)
  \/ \E d \in Databases, t \in TextIds : DeleteText(d, t)
  \/ \E d \in Databases : PurgeExpired(d)
  \/ Tick
  \/ \E d \in Databases, text \in Texts, fault \in CommitFaults :
       AddTextCommitFails(d, text, fault)
  \/ \E d \in Databases, t \in TextIds, fault \in CommitFaults :
       DeleteTextCommitFails(d, t, fault)
  \/ \E d \in Databases, fault \in CommitFaults : PurgeExpiredCommitFails(d, fault)

SpecFault == Init /\ [][NextFault]_vars

\* the instance used by a caller that leaves keys of the Text out
NextPartial ==
  \/ \E d \in Databases, url \in Urls, secret \in Secrets, create \in Creates :
       DatabaseInit(d, url, secret, create)
  \/ \E d \in Databases : Connect(d)
  \/ \E d \in Databases, text \in PartialTexts : AddText(d, text)
  \/ \E d \in Databases, t \in TextIds : GetText(d, t)
  \/ \E d \in Databases, t \in TextIds : DeleteText(d, t)
  \/ Tick

SpecPartial == Init /\ [][NextPartial]_vars

(***************************************************************************)
(* The operations of the Record Store step by step, from one suspension    *)
(* point (await) to the next.  Task t runs on an instance configured as d  *)
(* (its url, its secret) that has its own session; queries and commits are *)
(* the database's atomic steps.                                            *)
(***************************************************************************)
\* the table once the rows of the given keys are deleted
Deleted(table, rows) == { r \in table : r.text_id \notin { x.text_id : x \in rows } }

\* the row deleted at once, outside the transaction
SessionDelete_Autocommit(table, pending, row) ==
  [table |-> Deleted(table, {row}), pending |-> pending \cup {row}]

\* session.delete(text): the session records the deletion, which reaches the
\* table with the commit
SessionDelete(table, pending, row) ==
  [table |-> table, pending |-> pending \cup {row}]

\* the task goes on to pc
Goto(t, pc) == task' = [task EXCEPT ![t].pc = pc]

\* the operation of the task is over
Return(t) == task' = [task EXCEPT ![t] = Idle]

\* add_text up to `session.add(db_object)`
AddTextBegin(t, d, text) ==
  /\ db[d].state = "init"
  /\ task[t].pc = "idle"
  /\ IF NotConnected(d)
     THEN /\ last' = Raised("add_text", d, text, "BrokenPipeError")
          /\ task' = task
     ELSE IF KeyMissing(text)
     THEN /\ last' = Raised("add_text", d, text, "KeyError")
          /\ task' = task
     ELSE IF Blank(text.text_id) \/ Blank(text.content)
     THEN /\ last' = Raised("add_text", d, text, "ValueError")
          /\ task' = task
     ELSE \E salt \in Salts :
          /\ task' = [task EXCEPT ![t] =
                 Frame("add_text", "commit", text, {},
                       { NewRow(db[d].secret, text, salt) }, Table(d))]
          /\ last' = last
  /\ UNCHANGED <<db, store, now, orig, app>>

\* add_text: `await session.commit()`
AddTextCommit(t, d) ==
  /\ task[t].op = "add_text" /\ task[t].pc = "commit"
  /\ IF ~Reachable(db[d].url)
     THEN /\ last' = Raised("add_text", d, task[t].arg, OnCommitError(ConnectError(db[d].url)))
          /\ Return(t)
          /\ UNCHANGED <<store, orig>>
     ELSE LET row == CHOOSE r \in task[t].pending : TRUE IN
          IF Matching(Table(d), row.text_id) # {}
          THEN /\ last' = DuplicatedItem(d, task[t].arg, row.text_id)
               /\ Return(t)
               /\ UNCHANGED <<store, orig>>
          ELSE /\ Cardinality(AllRows) < MaxRows
               /\ store' = [store EXCEPT ![db[d].url] = @ \cup {row}]
               /\ orig' = orig \cup {Written(db[d].url, row, task[t].arg, db[d].secret)}
               /\ Goto(t, "reread")
               /\ last' = last
  /\ UNCHANGED <<db, now, app>>

\* add_text: `return await self.get_text(original_text_id)`
AddTextReread(t, d) ==
  /\ task[t].op = "add_text" /\ task[t].pc = "reread"
  /\ LET got == GetTextResult(db[d].secret, Table(d), task[t].arg.text_id) IN
     last' = Call("add_text", d, task[t].arg, got.error, None, got.ret, 0, {})
  /\ Return(t)
  /\ UNCHANGED <<db, store, now, orig, app>>

\* delete_text up to the end of its query
DeleteTextLookup(t, d, text_id) ==
  /\ db[d].state = "init"
  /\ task[t].pc = "idle"
  /\ IF NotConnected(d)
     THEN /\ last' = Raised("delete_text", d, OfId(text_id), "BrokenPipeError")
          /\ task' = task
     ELSE IF ~Reachable(db[d].url)
     THEN /\ last' = Raised("delete_text", d, OfId(text_id), ConnectError(db[d].url))
          /\ task' = task
     ELSE LET key == IF DeleteHashes(db[d].secret) THEN CalculateHash(text_id) ELSE text_id
              found == Matching(Table(d), key)
          IN
          IF found = {}
          THEN /\ last' = Raised("delete_text", d, OfId(text_id), "ValueError")
               /\ task' = task
          ELSE /\ task' = [task EXCEPT ![t] =
                      Frame("delete_text", "delete", OfId(text_id), found, {}, Table(d))]
               /\ last' = last
  /\ UNCHANGED <<db, store, now, orig, app>>

\* delete_text: `await session.delete(text)` and `await session.commit()`; a
\* DELETE that matches no row is no error
DeleteTextCommit(t, d) ==
  /\ task[t].op = "delete_text" /\ task[t].pc = "delete"
  /\ LET gone == Table(d) \ Deleted(Table(d), task[t].texts) IN
     /\ store' = [store EXCEPT ![db[d].url] = @ \ gone]
     /\ orig' = Forget(db[d].url, gone)
     /\ last' = Call("delete_text", d, task[t].arg, "None", None, NoText, 0,
                     Removed(db[d].url, gone))
  /\ Return(t)
  /\ UNCHANGED <<db, now, app>>

\* purge_expired up to the end of its query
PurgeExpiredSelect(t, d) ==
  /\ db[d].state = "init"
  /\ task[t].pc = "idle"
  /\ IF NotConnected(d)
     THEN /\ last' = Raised("purge_expired", d, NoText, "BrokenPipeError")
          /\ task' = task
     ELSE IF ~Reachable(db[d].url)
     THEN /\ last' = Raised("purge_expired", d, NoText, ConnectError(db[d].url))
          /\ task' = task
     ELSE LET texts == { r \in Table(d) : Expired(r.expires, now) } IN
          IF texts = {}
          THEN /\ last' = Done("purge_expired", d)
               /\ task' = task
          ELSE /\ task' = [task EXCEPT ![t] =
                      Frame("purge_expired", "delete", NoText, texts, {}, Table(d))]
               /\ last' = last
  /\ UNCHANGED <<db, store, now, orig, app>>

\* purge_expired: one `await session.delete(text)` of the loop
PurgeExpiredDelete(t, d) ==
  /\ task[t].op = "purge_expired" /\ task[t].pc = "delete"
  /\ \E text \in task[t].texts \ task[t].pending :
       LET session == SessionDelete(Table(d), task[t].pending, text) IN
       /\ store' = [store EXCEPT ![db[d].url] = session.table]
       /\ orig' = Forget(db[d].url, Table(d) \ session.table)
       /\ task' = [task EXCEPT ![t].pending = session.pending]
  /\ UNCHANGED <<db, now, last, app>>

\* purge_expired: `await session.commit()` and `return len(texts)`
PurgeExpiredCommit(t, d) ==
  /\ task[t].op = "purge_expired" /\ task[t].pc = "delete"
  /\ task[t].pending = task[t].texts
  /\ LET gone == Table(d) \ Deleted(Table(d), task[t].pending) IN
     /\ store' = [store EXCEPT ![db[d].url] = @ \ gone]
     /\ orig' = Forget(db[d].url, gone)
     /\ last' = Call("purge_expired", d, NoText, "None", None, NoText,
                     Cardinality(task[t].texts), Removed(db[d].url, gone))
  /\ Return(t)
  /\ UNCHANGED <<db, now, app>>

\* the task is cancelled where it is suspended: CancelledError is raised at
\* the await, no handler of the operation catches it, and the exit of
\* `async with session.begin()` rolls the open transaction back
Cancel(t, d) ==
  /\ task[t].op \in { "add_text", "delete_text", "purge_expired" }
  /\ last' = Raised(task[t].op, d, task[t].arg, "CancelledError")
  /\ Return(t)
  /\ UNCHANGED <<db, store, now, orig, app>>

\* the texts the tasks add
StepTexts == { text \in Texts : text.text_id \in { <<"a">>, <<"b", " ">> } /\ text.content = <<"x">> }

\* one task, which may be cancelled
NextCancel ==
  \/ \E d \in Databases, url \in Urls, secret \in Secrets, create \in Creates :
       DatabaseInit(d, url, secret, create)
  \/ \E d \in Databases : Connect(d)
  \/ \E d \in Databases, text \in StepTexts : AddTextBegin("t1", d, text)
  \/ \E d \in Databases : AddTextCommit("t1", d)
  \/ \E d \in Databases : AddTextReread("t1", d)
  \/ \E d \in Databases, t \in TextIds : DeleteTextLookup("t1", d, t)
  \/ \E d \in Databases : DeleteTextCommit("t1", d)
  \/ \E d \in Databases : PurgeExpiredSelect("t1", d)
  \/ \E d \in Databases : PurgeExpiredDelete("t1", d)
  \/ \E d \in Databases : PurgeExpiredCommit("t1", d)
  \/ \E d \in Databases : Cancel("t1", d)
  \/ Tick

SpecCancel == Init /\ [][NextCancel]_vars

\* two tasks on instances of one configuration over the same store, their
\* steps interleaved: t1 serves requests, t2 deletes and purges (a request,
\* or the background purge)
NextRace ==
  \/ \E d \in Databases, url \in Urls, secret \in Secrets, create \in Creates :
       DatabaseInit(d, url, secret, create)
  \/ \E d \in Databases : Connect(d)
  \/ \E d \in Databases, text \in StepTexts : AddTextBegin("t1", d, text)
  \/ \E d \in Databases : AddTextCommit("t1", d)
  \/ \E d \in Databases : AddTextReread("t1", d)
  \/ \E t \in Tasks, d \in Databases, text_id \in TextIds : DeleteTextLookup(t, d, text_id)
  \/ \E t \in Tasks, d \in Databases : DeleteTextCommit(t, d)
  \/ \E t \in Tasks, d \in Databases : PurgeExpiredSelect(t, d)
  \/ \E t \in Tasks, d \in Databases : PurgeExpiredDelete(t, d)
  \/ \E t \in Tasks, d \in Databases : PurgeExpiredCommit(t, d)
  \/ Tick

SpecRace == Init /\ [][NextRace]_vars

(***************************************************************************)
(* Database.__call__(): the instance as the dependency of a request        *)
(* handler, shared by the requests (tasks) that handler serves.            *)
(* app.sessions counts the sessions connect() has assigned to the instance.*)
(***************************************************************************)
\* connect() from `self.session = make_session()`
ConnectFinish(d) ==
  /\ db' = [db EXCEPT ![d].session = "Session", ![d].disconnected = FALSE]
  /\ app' = [app EXCEPT !.sessions = @ + 1]
  /\ last' = Done("connect", d)

\* `if not self.session: await self.connect()`, up to the first await of
\* connect() (`async with engine.begin()`, reached when create is set), or
\* to `yield self`
CallBegin(t, d) ==
  /\ db[d].state = "init"
  /\ task[t].pc = "idle"
  /\ IF NotConnected(d)
     THEN IF Contacts(db[d].create)
          THEN /\ task' = [task EXCEPT ![t] = Frame("__call__", "create", NoText, {}, {}, {})]
               /\ UNCHANGED <<db, app, last>>
          ELSE /\ ConnectFinish(d)
               /\ task' = task
     ELSE /\ last' = Done("__call__", d)
          /\ UNCHANGED <<db, app, task>>
  /\ UNCHANGED <<store, now, orig>>

\* connect() resumed after the tables are created
CallCreate(t, d) ==
  /\ task[t].op = "__call__" /\ task[t].pc = "create"
  /\ IF ~Reachable(db[d].url)
     THEN /\ last' = Raised("connect", d, NoText, OnCreateError(ConnectError(db[d].url)))
          /\ UNCHANGED <<db, app>>
     ELSE ConnectFinish(d)
  /\ Return(t)
  /\ UNCHANGED <<store, now, orig>>

\* the requests of one handler, which add and read texts
NextCall ==
  \/ \E d \in Databases, url \in Urls, secret \in Secrets, create \in Creates :
       DatabaseInit(d, url, secret, create)
  \/ \E t \in Tasks, d \in Databases : CallBegin(t, d)
  \/ \E t \in Tasks, d \in Databases : CallCreate(t, d)
  \/ \E d \in Databases, text \in StepTexts : AddText(d, text)
  \/ \E d \in Databases, text_id \in TextIds : GetText(d, text_id)

SpecCall == Init /\ [][NextCall]_vars

(***************************************************************************)
(* The background task of the web application (webapp/background.py): an   *)
(* asyncio task that, in a loop, builds a Database from the settings of    *)
(* the application (those of the instance d), purges and sleeps.           *)
(* app.purger is "off" before the task is created, "ready" when it is      *)
(* about to iterate, "sleeping" in asyncio.sleep(idle), "dead" once an     *)
(* exception left the coroutine.                                           *)
(***************************************************************************)
\* a single pass instead of a loop
OnPurgerError_Once(error) == "dead"

\* every exception caught
OnPurgerError_CatchAll(error) == "sleeping"

\* purge_expired: `except BrokenPipeError` logs and the loop goes on to
\* `await asyncio.sleep(idle)`; any other exception leaves the coroutine
OnPurgerError(error) ==
  IF error \in { "None", "BrokenPipeError" } THEN "sleeping" ELSE "dead"

\* background_tasks: asyncio.create_task(purge_expired(settings, idle=60))
StartBackground(d) ==
  /\ db[d].state = "init"
  /\ app.purger = "off" /\ app.loop = "running"
  /\ app' = [app EXCEPT !.purger = "ready"]
  /\ UNCHANGED <<db, store, now, last, orig, task>>

\* the outcome of the iteration
Iterated(d, error, count, removed) ==
  /\ app' = [app EXCEPT !.purger = OnPurgerError(error)]
  /\ last' = Call("background.purge_expired", d, NoText, error, None, NoText, count, removed)

\* one iteration of the loop: `async with Database(**settings...) as
\* database: await database.purge_expired()`, on an instance of its own;
\* fault is the exception its commit raises ("None": it commits)
PurgerIterate(d, fault) ==
  /\ app.purger = "ready" /\ app.loop = "running"
  /\ IF ~Reachable(db[d].url)
     THEN /\ Iterated(d, IF Contacts(db[d].create)
                         THEN OnCreateError(ConnectError(db[d].url))
                         ELSE ConnectError(db[d].url), 0, {})
          /\ UNCHANGED <<store, orig>>
     ELSE LET texts == { r \in Table(d) : Expired(r.expires, now) } IN
          IF texts = {}
          THEN /\ Iterated(d, "None", 0, {})
               /\ UNCHANGED <<store, orig>>
          ELSE IF fault # "None"
          THEN /\ Iterated(d, OnCommitError(fault), 0, {})
               /\ store' = [store EXCEPT ![db[d].url] = Rollback(@, @ \ texts)]
               /\ orig' = orig
          ELSE /\ Iterated(d, "None", Cardinality(texts), Removed(db[d].url, texts))
               /\ store' = [store EXCEPT ![db[d].url] = @ \ texts]
               /\ orig' = Forget(db[d].url, texts)
  /\ UNCHANGED <<db, now, task>>

\* asyncio.sleep(idle) is over: `while True` runs the next iteration
PurgerWake ==
  /\ app.purger = "sleeping" /\ app.loop = "running"
  /\ app' = [app EXCEPT !.purger = "ready"]
  /\ UNCHANGED <<db, store, now, last, orig, task>>

\* result_handler, the done callback of the task: task.result() raises the
\* exception that ended the task and the event loop is stopped
ResultHandler ==
  /\ app.purger = "dead" /\ app.loop = "running"
  /\ app' = [app EXCEPT !.loop = "stopped"]
  /\ UNCHANGED <<db, store, now, last, orig, task>>

\* the event loop runs the handlers of the application
Running == app.loop = "running"

\* the web application: requests that add texts and the background task,
\* over a store whose commits may fail
NextPurger ==
  \/ \E d \in Databases, url \in Urls, secret \in Secrets, create \in Creates :
       DatabaseInit(d, url, secret, create)
  \/ \E d \in Databases : Running /\ Connect(d)
  \/ \E d \in Databases, text \in StepTexts : Running /\ AddText(d, text)
  \/ \E d \in Databases : StartBackground(d)
  \/ \E d \in Databases, fault \in CommitFaults \cup { "None" } : PurgerIterate(d, fault)
  \/ PurgerWake
  \/ ResultHandler
  \/ Tick

SpecPurger == Init /\ [][NextPurger]_vars

\* the web application over a store that answers and whose commits succeed,
\* its background task scheduled fairly by the event loop
NextReclaim ==
  \/ \E d \in Databases, url \in Urls, secret \in Secrets, create \in Creates :
       DatabaseInit(d, url, secret, create)
  \/ \E d \in Databases : Running /\ Connect(d)
  \/ \E d \in Databases, text \in StepTexts : Running /\ AddText(d, text)
  \/ \E d \in Databases, text_id \in TextIds : Running /\ DeleteText(d, text_id)
  \/ \E d \in Databases : StartBackground(d)
  \/ \E d \in Databases : PurgerIterate(d, "None")
  \/ PurgerWake
  \/ ResultHandler
  \/ Tick

SpecReclaim ==
  /\ Init /\ [][NextReclaim]_vars
  /\ WF_vars(\E d \in Databases : StartBackground(d))
  /\ WF_vars(\E d \in Databases : PurgerIterate(d, "None"))
  /\ WF_vars(PurgerWake)

(***************************************************************************)
(* The POST / handler of the API (webapp/api.py), with the validation of   *)
(* its body by TextSchema (webapp/schema.py) and its Database dependency.  *)
(***************************************************************************)
\* Settings.maxlength (10000 by default, 10 in the tests), scaled
SettingsMaxlength == 2
\* Settings.expires, in seconds (7776000 by default), scaled to the clock
SettingsExpires == 1

\* the values uuid4() returns for a text_id, in the order of the calls
Uuids == << <<"u", "1">>, <<"u", "2">>, <<"u", "3">>, <<"u", "4">> >>

\* a value of uuid4() that no stored text bears
Uuid4 ==
  LET used == { w.text.text_id : w \in orig }
      free == { i \in 1..Len(Uuids) : Uuids[i] \notin used }
  IN Uuids[CHOOSE i \in free : \A j \in free : i <= j]

\* request bodies: text_id and expires may be left out; the created of the
\* request is the time the client started; contents of every length up to
\* one more than maxlength; expires absent, past, allowed and too late
Bodies ==
  { Text(t, c, 0, e) :
      t \in { Absent, <<"a">> },
      c \in { <<" ">>, <<"x">>, <<" ", "y", "z">>, <<"x", "y", "z">> },
      e \in { NullTime, 0, MaxTime, MaxTime + SettingsExpires + 1 } }

\* TextSchema: strip_whitespace on text_id and content, a text_id left out
\* is default_factory's uuid
Validated(body, uuid) ==
  [body EXCEPT !.text_id = IF body.text_id = Absent THEN uuid ELSE Strip(body.text_id),
               !.content = Strip(body.content)]

\* TextSchema: min_length=1 on text_id and content
Valid(text) == Len(text.text_id) >= 1 /\ Len(text.content) >= 1

\* `if len(text.content) >= settings.maxlength`
TooLong(content) == Len(content) >= SettingsMaxlength

\* the status of the response to a text that is too long:
\* HTTPException(status_code=400, ...)
TooLongStatus == 400

\* the expires of the request kept, also when there is none
Expiring_Keep(expires, created) == expires

\* `text.expires = text.expires or text.created + timedelta(seconds=settings.expires)`
Expiring(expires, created) ==
  IF expires = NullTime THEN created + SettingsExpires ELSE expires

\* `maxexpires = text.created + timedelta(seconds=settings.expires)`
MaxExpires(created) == created + SettingsExpires

\* the response to the request body: status and, with 200, the Text returned
Response(d, body, error, ret, status) ==
  [Call("POST /", d, body, error, None, ret, 0, {}) EXCEPT !.status = status]

\* POST /: the dependency (Database.__call__) connects the instance if it
\* has no session; the body is validated (422); the handler checks the
\* length and the expiry (400), calls add_text and returns its result
\* (200); an exception that no handler catches is a 500
PostText(d, body) ==
  /\ db[d].state = "init"
  /\ IF NotConnected(d) /\ Contacts(db[d].create) /\ ~Reachable(db[d].url)
     THEN /\ last' = Response(d, body, OnCreateError(ConnectError(db[d].url)), NoText, 500)
          /\ UNCHANGED <<db, store, orig, app>>
     ELSE
     /\ db' = [db EXCEPT ![d].session = "Session",
                         ![d].disconnected = IF NotConnected(d) THEN FALSE ELSE @]
     /\ app' = [app EXCEPT !.sessions = IF NotConnected(d) THEN @ + 1 ELSE @]
     /\ \E uuid \in { Uuid4 } :
        /\ LET schema == Validated(body, uuid)
               created == now
               expires == Expiring(schema.expires, created)
               text == Text(schema.text_id, schema.content, created, expires)
           IN
           IF ~Valid(schema)
           THEN /\ last' = Response(d, body, "RequestValidationError", NoText, 422)
                /\ UNCHANGED <<store, orig>>
           ELSE IF TooLong(schema.content)
           THEN /\ last' = Response(d, body, "HTTPException", NoText, TooLongStatus)
                /\ UNCHANGED <<store, orig>>
           ELSE IF expires > MaxExpires(created)
           THEN /\ last' = Response(d, body, "HTTPException", NoText, 400)
                /\ UNCHANGED <<store, orig>>
           ELSE IF ~Reachable(db[d].url)
           THEN /\ last' = Response(d, body, OnCommitError(ConnectError(db[d].url)), NoText, 500)
                /\ UNCHANGED <<store, orig>>
           ELSE \E salt \in Salts :
                LET row == NewRow(db[d].secret, text, salt) IN
                IF Matching(Table(d), row.text_id) # {}
                THEN /\ last' = Response(d, body, "DuplicatedItemException", NoText, 500)
                     /\ UNCHANGED <<store, orig>>
                ELSE /\ Cardinality(AllRows) < MaxRows
                     /\ store' = [store EXCEPT ![db[d].url] = @ \cup {row}]
                     /\ orig' = orig \cup {Written(db[d].url, row, text, db[d].secret)}
                     /\ LET got == GetTextResult(db[d].secret, Table(d) \cup {row}, text.text_id) IN
                        last' = Response(d, body, got.error, got.ret,
                                         IF got.error = "None" THEN 200 ELSE 500)
  /\ UNCHANGED <<now, task>>

\* the API: requests that add and delete texts, as time passes
NextApi ==
  \/ \E d \in Databases, url \in Urls, secret \in Secrets, create \in Creates :
       DatabaseInit(d, url, secret, create)
  \/ \E d \in Databases, body \in Bodies : PostText(d, body)
  \/ \E d \in Databases, text_id \in TextIds : DeleteText(d, text_id)
  \/ Tick

SpecApi == Init /\ [][NextApi]_vars

TypeOK ==
  /\ now \in Times
  /\ Cardinality(AllRows) <= MaxRows

(***************************************************************************)
(* Vocabulary of the properties.                                           *)
(***************************************************************************)
\* the instance is connected
Connected(d) == db[d].state = "init" /\ db[d].session # "None"

\* the instance is connected to a database that answers
Serving(d) ==
  Connected(d) /\ db[d].url = [driver |-> "sqlite+aiosqlite", rest |-> <<"/", "/", "m">>]

\* the instance is built over a database that does not answer
StoreDown(d) ==
  /\ db[d].state = "init"
  /\ db[d].url # [driver |-> "sqlite+aiosqlite", rest |-> <<"/", "/", "m">>]

\* the errors of the taxonomy: ValidationError and NotFoundError
\* (ValueError), DuplicatedItemException, TransientStorageError
\* (RuntimeError), NotConnectedError (BrokenPipeError)
Taxonomy ==
  ValueErrors \cup { "DuplicatedItemException", "RuntimeError", "BrokenPipeError" }

\* the string is empty once its whitespace is trimmed
IsBlank(s) == \A i \in 1..Len(s) : s[i] = " "

\* the instance is in encrypted mode ("Database is encrypted", __init__)
EncryptedMode(d) == db[d].secret \notin { None, <<>> }

\* the record store operations
RecordOps == { "add_text", "get_text", "delete_text", "purge_expired" }

\* the insertions of text_id into the table of d by an instance with d's secret
StoredBy(d, text_id) ==
  { w \in orig : w.url = db[d].url /\ w.secret = db[d].secret
                   /\ w.text.text_id = text_id }

\* the insertions of text_id into the table of d under the kind of key
\* (plaintext or fingerprint) that an instance with d's secret writes
StoredLike(d, text_id) ==
  { w \in orig : w.url = db[d].url /\ w.text.text_id = text_id
                   /\ ((w.secret = None) <=> (db[d].secret = None)) }

(***************************************************************************)
(* C1. Round trip: add_text of a non-blank text_id and content on a        *)
(* connected instance, in plain mode and in encrypted mode, returns a Text *)
(* with the caller's text_id, content, created and expires, and so does a  *)
(* get_text(text_id) that follows it.                                      *)
(***************************************************************************)
C1_RoundTrip ==
  [][ /\ ( /\ last'.op = "add_text"
           /\ Serving(last'.db)
           /\ ~IsBlank(last'.arg.text_id) /\ ~IsBlank(last'.arg.content)
           /\ last'.error # "DuplicatedItemException" )
          => (last'.error = "None" /\ last'.ret = last'.arg)
      /\ ( /\ last'.op = "get_text"
           /\ last.op = "add_text" /\ last.error = "None" /\ last.db = last'.db
           /\ last'.arg.text_id = last.arg.text_id )
          => (last'.error = "None" /\ last'.ret = last.arg)
    ]_vars

\* the same of an instance built without a secret or with a non-empty one
C1_RoundTripWithSecretOrNone ==
  [][ /\ ( /\ last'.op = "add_text"
           /\ Serving(last'.db) /\ db[last'.db].secret # <<>>
           /\ ~IsBlank(last'.arg.text_id) /\ ~IsBlank(last'.arg.content)
           /\ last'.error # "DuplicatedItemException" )
          => (last'.error = "None" /\ last'.ret = last'.arg)
      /\ ( /\ last'.op = "get_text"
           /\ db[last'.db].secret # <<>>
           /\ last.op = "add_text" /\ last.error = "None" /\ last.db = last'.db
           /\ last'.arg.text_id = last.arg.text_id )
          => (last'.error = "None" /\ last'.ret = last.arg)
    ]_vars

(***************************************************************************)
(* C2. add_text of a text_id that is already stored raises                 *)
(* DuplicatedItemException with object_type "text" and the caller's        *)
(* text_id as object_id, in encrypted mode too, and changes no record.     *)
(***************************************************************************)
C2_Duplicate ==
  [][ ( /\ last'.op = "add_text"
        /\ Serving(last'.db)
        /\ ~IsBlank(last'.arg.text_id) /\ ~IsBlank(last'.arg.content)
        /\ StoredLike(last'.db, last'.arg.text_id) # {} )
      => ( /\ last'.error = "DuplicatedItemException"
           /\ last'.object_type = "text"
           /\ last'.object_id = last'.arg.text_id
           /\ store' = store )
    ]_vars

\* a duplicate was refused on an instance in encrypted mode, with another
\* content than the one stored
C2_Witness ==
  /\ last.op = "add_text" /\ last.error = "DuplicatedItemException"
  /\ last.object_id = <<"b", " ">>
  /\ EncryptedMode(last.db)
  /\ \E w \in StoredBy(last.db, <<"b", " ">>) : w.text.content # last.arg.content

(***************************************************************************)
(* C3. add_text on a connected instance with a text_id or a content that   *)
(* is empty after trimming raises ValueError and leaves the store as it    *)
(* was.                                                                    *)
(***************************************************************************)
C3_BlankRejected ==
  [][ ( /\ last'.op = "add_text"
        /\ Connected(last'.db)
        /\ (IsBlank(last'.arg.text_id) \/ IsBlank(last'.arg.content)) )
      => (last'.error = "ValueError" /\ store' = store)
    ]_vars

\* a text of whitespace only was refused while the table was not empty
C3_Witness ==
  /\ last.op = "add_text" /\ last.error = "ValueError"
  /\ last.arg.text_id = <<"a">> /\ last.arg.content = <<" ">>
  /\ Serving(last.db)
  /\ store[db[last.db].url] # {}

(***************************************************************************)
(* C4. purge_expired removes exactly the records whose expires is set and  *)
(* strictly before the current time, leaves the others unchanged and       *)
(* returns the number removed; a get_text of a purged text_id then raises  *)
(* ValueError.                                                             *)
(***************************************************************************)
C4_PurgeExact ==
  [][ /\ (last'.op = "purge_expired" /\ Serving(last'.db))
          => ( /\ last'.error = "None"
               /\ store' = [store EXCEPT ![db[last'.db].url] =
                    { r \in @ : r.expires = NullTime \/ r.expires >= now }]
               /\ last'.count =
                    Cardinality(store[db[last'.db].url] \ store'[db[last'.db].url]) )
      /\ ( /\ last'.op = "get_text"
           /\ last.op = "purge_expired" /\ last.db = last'.db
           /\ last'.arg.text_id \in last.removed )
          => last'.error = "ValueError"
    ]_vars

\* a purge removed one record, counted it, and left one that expires later
C4_Witness ==
  /\ last.op = "purge_expired" /\ last.error = "None"
  /\ last.count = 1 /\ Cardinality(last.removed) = 1
  /\ Serving(last.db)
  /\ \A t \in last.removed : StoredBy(last.db, t) = {}
  /\ \E r \in store[db[last.db].url] : r.expires # NullTime /\ r.expires > now

(***************************************************************************)
(* C5. purge_expired on a store without an expired record, the empty       *)
(* store included, returns 0 and changes nothing; so does a purge_expired  *)
(* that directly follows another.                                          *)
(***************************************************************************)
C5_PurgeNothing ==
  [][ ( /\ last'.op = "purge_expired"
        /\ Serving(last'.db)
        /\ \/ \A r \in store[db[last'.db].url] :
                r.expires = NullTime \/ r.expires >= now
           \/ ( /\ last.op = "purge_expired" /\ last.db = last'.db
                /\ last.error = "None" ) )
      => (last'.error = "None" /\ last'.count = 0 /\ store' = store)
    ]_vars

\* a purge returned 0 over a record that never expires, late in the run
C5_Witness ==
  /\ last.op = "purge_expired" /\ last.error = "None" /\ last.count = 0
  /\ Serving(last.db)
  /\ now = MaxTime
  /\ \E r \in store[db[last.db].url] : r.expires = NullTime

C7_Delete ==
  [][ /\ ( /\ last'.op = "delete_text" /\ Serving(last'.db)
           /\ StoredBy(last'.db, last'.arg.text_id) = {} )
          => (last'.error = "ValueError" /\ store' = store)
      /\ ( /\ last'.op = "delete_text" /\ Serving(last'.db)
           /\ StoredBy(last'.db, last'.arg.text_id) # {} )
          => ( /\ last'.error = "None"
               /\ store' = [store EXCEPT ![db[last'.db].url] =
                    @ \ { w.row : w \in StoredBy(last'.db, last'.arg.text_id) }]
               /\ Cardinality(store[db[last'.db].url] \ store'[db[last'.db].url]) = 1 )
      /\ ( /\ last'.op \in { "get_text", "delete_text" }
           /\ last.op = "delete_text" /\ last.error = "None" /\ last.db = last'.db
           /\ last'.arg.text_id = last.arg.text_id )
          => last'.error = "ValueError"
    ]_vars

(***************************************************************************)
(* C8. On an instance on which connect() never succeeded, add_text,        *)
(* get_text, delete_text and purge_expired raise BrokenPipeError           *)
(* (NotConnectedError) whatever their arguments, and neither connect the   *)
(* instance nor touch the store.                                           *)
(***************************************************************************)
C8_NeverConnected ==
  [][ (last'.op \in RecordOps /\ db[last'.db].session = "None")
      => (last'.error = "BrokenPipeError" /\ db' = db /\ store' = store)
    ]_vars

\* an add_text of a valid Text was refused on an instance that was built
\* and never connected
C8_Witness ==
  /\ last.op = "add_text" /\ last.error = "BrokenPipeError"
  /\ ~IsBlank(last.arg.text_id) /\ ~IsBlank(last.arg.content)
  /\ db[last.db].state = "init" /\ db[last.db].session = "None"

(***************************************************************************)
(* C9. After disconnect(), and until a new connect(), add_text, get_text,  *)
(* delete_text and purge_expired raise BrokenPipeError                     *)
(* (NotConnectedError).                                                    *)
(***************************************************************************)
C9_AfterDisconnect ==
  [][ (last'.op \in RecordOps /\ db[last'.db].disconnected)
      => last'.error = "BrokenPipeError"
    ]_vars

(***************************************************************************)
(* C10. Database.__init__ raises ValueError for a url whose scheme,        *)
(* lowercased, is neither sqlite nor postgresql, and builds no instance:   *)
(* no instance of an unsupported scheme is ever connected.                 *)
(***************************************************************************)
UnsupportedUrls ==
  { <<"m","y","s","q","l",":","/","/","h">>,
    <<"-",">"," ","w",":","/","/","h">>,
    <<"s","q","l","i","t","e">> }

C10_UnsupportedScheme ==
  [][ /\ (last'.op = "__init__" /\ last'.url \in UnsupportedUrls)
          => (last'.error = "ValueError" /\ db' = db)
      /\ (last'.op = "__init__" /\ last'.url \in Urls \ UnsupportedUrls)
          => last'.error = "None"
      /\ \A d \in Databases :
           Connected(d)' => db'[d].url.driver \in { "sqlite+aiosqlite", "postgresql+asyncpg" }
    ]_vars

\* a mysql url was refused and left no instance behind
C10_Witness ==
  /\ last.op = "__init__" /\ last.error = "ValueError"
  /\ last.url = <<"m","y","s","q","l",":","/","/","h">>
  /\ db[last.db].state = "absent"

(***************************************************************************)
(* C11. When connect() cannot create the tables because the store does not *)
(* answer, it raises RuntimeError (StorageUnavailableError) and leaves the *)
(* session unset, so that the Record Store operations that follow raise    *)
(* BrokenPipeError (NotConnectedError).                                    *)
(***************************************************************************)
C11_ConnectFails ==
  [][ /\ ( /\ last'.op = "connect"
           /\ db[last'.db].create /\ StoreDown(last'.db) )
          => ( /\ last'.error = "RuntimeError"
               /\ db'[last'.db].session = db[last'.db].session )
      /\ ( /\ last'.op \in RecordOps
           /\ last.op = "connect" /\ last.error # "None" /\ last.db = last'.db
           /\ ~db[last'.db].disconnected )
          => last'.error = "BrokenPipeError"
    ]_vars

(***************************************************************************)
(* C12. With create disabled, connect() to the postgresql store that is    *)
(* down succeeds and sets the session without contacting the store; the    *)
(* Record Store operation that follows raises ConnectionRefusedError.      *)
(***************************************************************************)
C12_LazyConnect ==
  [][ /\ ( /\ last'.op = "connect"
           /\ ~db[last'.db].create
           /\ db[last'.db].url.driver = "postgresql+asyncpg" )
          => ( /\ last'.error = "None"
               /\ db'[last'.db].session # "None"
               /\ store' = store )
      /\ ( /\ last'.op \in RecordOps
           /\ Connected(last'.db)
           /\ db[last'.db].url.driver = "postgresql+asyncpg"
           /\ ( last'.op = "add_text"
                  => (~IsBlank(last'.arg.text_id) /\ ~IsBlank(last'.arg.content)) ) )
          => (last'.error = "ConnectionRefusedError" /\ store' = store)
    ]_vars

\* the first operation after the connect() raised ConnectionRefusedError,
\* as in test_connect
C12_Witness ==
  /\ last.op = "purge_expired" /\ last.error = "ConnectionRefusedError"
  /\ Connected(last.db) /\ ~db[last.db].create
  /\ db[last.db].url.driver = "postgresql+asyncpg"

(***************************************************************************)
(* C13. Every failure of add_text, get_text, delete_text and purge_expired *)
(* is an error of the taxonomy: no exception of the driver or of the       *)
(* engine leaves a Record Store operation.                                 *)
(***************************************************************************)
C13_OnlyTaxonomy ==
  last.op \in RecordOps => last.error \in Taxonomy \cup { "None" }

(***************************************************************************)
(* C14. When the commit of add_text, delete_text or purge_expired fails    *)
(* with a data or operational error, the operation raises RuntimeError     *)
(* (TransientStorageError) and the store is as before the operation: no    *)
(* record is half committed, and purge_expired has removed none of the     *)
(* records it selected.                                                    *)
(***************************************************************************)
C14_RolledBack ==
  [][ ( /\ last'.op \in { "add_text", "delete_text", "purge_expired" }
        /\ last'.fault \in { "DataError", "OperationalError" } )
      => (last'.error = "RuntimeError" /\ store' = store)
    ]_vars

\* the commit of a purge of two records failed, and both are in the table
C14_Witness ==
  /\ last.op = "purge_expired" /\ last.fault = "OperationalError"
  /\ last.error = "RuntimeError"
  /\ Cardinality({ r \in store[db[last.db].url] :
                     r.expires # NullTime /\ r.expires < now }) = 2

(***************************************************************************)
(* C15. An add_text whose insertion fails at the database raises           *)
(* DuplicatedItemException or RuntimeError (TransientStorageError), the    *)
(* latter also for an integrity failure that is no uniqueness violation:   *)
(* it never goes on to the re-read and never returns normally.             *)
(***************************************************************************)
C15_FailedInsertRaises ==
  [][ (last'.op = "add_text" /\ last'.fault # "None")
      => ( /\ last'.error \in { "DuplicatedItemException", "RuntimeError" }
           /\ last'.ret = NoText )
    ]_vars

C17_Representation ==
  [][ (last'.op = "add_text" /\ store' # store)
      => \A r \in store'[db[last'.db].url] \ store[db[last'.db].url] :
           IF EncryptedMode(last'.db)
           THEN /\ r.text_id = CalculateHash(last'.arg.text_id)
                /\ r.text_id # last'.arg.text_id
                /\ r.salt # None
                /\ B64Decodable(r.content)
                /\ B64Decode(r.content) =
                     FernetToken(DeriveKey(db[last'.db].secret, last'.arg.text_id, r.salt),
                                 last'.arg.content)
                /\ r.content # last'.arg.content
                /\ r.created = last'.arg.created /\ r.expires = last'.arg.expires
           ELSE /\ r.text_id = last'.arg.text_id
                /\ r.content = last'.arg.content
                /\ r.salt = None
                /\ r.created = last'.arg.created /\ r.expires = last'.arg.expires
    ]_vars

(***************************************************************************)
(* C18. Records are never updated in place: a record that stays in the     *)
(* store keeps its content, created, expires and salt. Only an add_text    *)
(* that returns adds a record, only a delete_text or a purge_expired that  *)
(* returns removes one; get_text and every operation that raises leave the *)
(* store unchanged.                                                        *)
(***************************************************************************)
C18_NoUpdateInPlace ==
  [][ /\ \A e \in Engines : \A r1 \in store[e], r2 \in store'[e] :
           r1.text_id = r2.text_id => r1 = r2
      /\ (\E e \in Engines : store'[e] \ store[e] # {})
          => (last'.op = "add_text" /\ last'.error = "None")
      /\ (\E e \in Engines : store[e] \ store'[e] # {})
          => (last'.op \in { "delete_text", "purge_expired" } /\ last'.error = "None")
      /\ (last'.op = "get_text" \/ (last'.op \in RecordOps /\ last'.error # "None"))
          => store' = store
    ]_vars

\* a delete_text removed one record and the other one is in the table as
\* it was written
C18_Witness ==
  /\ last.op = "delete_text" /\ last.error = "None"
  /\ Cardinality(last.removed) = 1
  /\ \E w \in orig : w.url = db[last.db].url /\ w.row \in store[w.url]
                       /\ w.text.text_id \notin last.removed

\* C19: a record submitted without a text_id is stored under a
\* server-generated identifier: add_text of a Text with content and no
\* text_id, on an instance connected to a database that answers, returns a
\* record whose text_id is a non-empty identifier, stored by that call
C19_ServerGeneratedId ==
  [][ (/\ last'.op = "add_text"
       /\ Serving(last'.db)
       /\ last'.arg.text_id = Absent
       /\ ~IsBlank(last'.arg.content))
      => (/\ last'.error = "None"
          /\ last'.ret.text_id \notin { Absent, None }
          /\ ~IsBlank(last'.ret.text_id)
          /\ store' # store)
    ]_vars

\* C20: the created of a stored record is the time of its insertion: an
\* add_text of a Text without created, which succeeds, returns (by the read
\* that ends it) a record whose created is the time at which it ran
C20_CreatedIsInsertionTime ==
  [][ (/\ last'.op = "add_text"
       /\ last'.error = "None"
       /\ store' # store
       /\ last'.arg.created = NullTime)
      => last'.ret.created = now'
    ]_vars

\* the table a task's operation leaves when its transaction is complete: the
\* table it found with the record added, or without the records it selected
Complete(f) ==
  IF f.op = "add_text" THEN f.before \cup f.pending ELSE Deleted(f.before, f.texts)

\* C21: an add_text, delete_text or purge_expired cancelled at a suspension
\* point leaves the table either as the operation found it or as its
\* complete transaction makes it, never in between
C21_CancelledIsAtomic ==
  [][ \A t \in Tasks :
        (/\ task[t].pc # "idle"
         /\ task'[t].pc = "idle"
         /\ last'.error = "CancelledError")
        => store'[db[last'.db].url] \in { task[t].before, Complete(task[t]) }
    ]_vars

\* a purge_expired was cancelled and the two expired records it had selected
\* are both still stored
C21_Witness ==
  /\ last.op = "purge_expired" /\ last.error = "CancelledError"
  /\ Cardinality({ r \in Table(last.db) : Expired(r.expires, now) }) = 2

\* C22: an add_text whose insertion committed returns the stored record to
\* its caller, whatever another instance does to the store between the
\* commit and the re-read
C22_CommittedIsReturned ==
  [][ \A t \in Tasks :
        (task[t].op = "add_text" /\ task[t].pc = "reread" /\ task'[t].pc = "idle")
        => (/\ last'.error = "None"
            /\ last'.ret.text_id = task[t].arg.text_id
            /\ last'.ret.created = task[t].arg.created
            /\ last'.ret.expires = task[t].arg.expires)
    ]_vars

\* C23: the count purge_expired returns is the number of records that call
\* removed, also when another instance deletes or purges between its
\* selection and its deletion
C23_CountIsRemoved ==
  [][ \A t \in Tasks :
        (/\ task[t].op = "purge_expired"
         /\ task[t].pc = "delete"
         /\ task'[t].pc = "idle")
        => last'.count = Cardinality(store[db[last'.db].url] \ store'[db[last'.db].url])
    ]_vars

\* C24: a delete_text that returns success has itself removed the record it
\* found, also when another delete_text or a purge_expired removed that
\* record between its lookup and its deletion (of two interleaved
\* delete_text of one text_id, one succeeds and the other one does not)
C24_DeleteRemovesWhatItFound ==
  [][ \A t \in Tasks :
        (/\ task[t].op = "delete_text"
         /\ task[t].pc = "delete"
         /\ task'[t].pc = "idle"
         /\ last'.error = "None")
        => (/\ task[t].texts \subseteq store[db[last'.db].url]
            /\ task[t].texts \cap store'[db[last'.db].url] = {})
    ]_vars

\* C25: add_text, get_text and delete_text agree on whether the instance
\* encrypts, whatever its secret: for every record the instance added and
\* that is still stored, the key get_text looks up and the key delete_text
\* looks up are the key add_text wrote, and get_text decrypts exactly when
\* add_text encrypted
C25_OneMode ==
  \A d \in Databases : \A w \in orig :
    (/\ db[d].state = "init"
     /\ w.url = db[d].url
     /\ w.secret = db[d].secret
     /\ w.row \in store[w.url])
    => LET secret == db[d].secret
           text_id == w.text.text_id
       IN
       /\ (IF GetHashes(secret) THEN CalculateHash(text_id) ELSE text_id) = w.row.text_id
       /\ (IF DeleteHashes(secret) THEN CalculateHash(text_id) ELSE text_id) = w.row.text_id
       /\ GetDecrypts(secret) = AddEncrypts(secret)

\* C26: an instance used as a request dependency is connected once: over
\* the requests it serves, sequential or concurrent, connect() gives it a
\* session at most once, so the session once set is never replaced
C26_OneSession == app.sessions <= 1

\* C27 as claimed: the background purge task never dies by itself and the
\* event loop keeps running, whatever its iterations raise
C27_NeverDies == app.purger # "dead" /\ app.loop = "running"

\* C27, amended: after an iteration that succeeded (or raised
\* BrokenPipeError) the task sleeps and then iterates again; an iteration
\* that raised anything else ends the task, and only then, through
\* result_handler, the event loop stops; a sleeping task only wakes up
C27_DiesOnUnhandledOnly ==
  [][ /\ (app.purger = "ready" /\ app'.purger # "ready")
          => /\ last'.op = "background.purge_expired"
             /\ app'.purger =
                  (IF last'.error \in { "None", "BrokenPipeError" } THEN "sleeping" ELSE "dead")
             /\ app'.loop = "running"
      /\ (app.purger = "sleeping" => app'.purger \in { "sleeping", "ready" })
      /\ (app.purger = "dead" => app'.purger = "dead")
      /\ (app.loop # app'.loop => (app.purger = "dead" /\ app'.loop = "stopped"))
    ]_vars

\* an iteration failed with a storage error, the task is dead and the event
\* loop has been stopped
C27_Witness ==
  /\ app.purger = "dead" /\ app.loop = "stopped"
  /\ last.op = "background.purge_expired" /\ last.error = "RuntimeError"

\* the rows add_text writes for the texts of the requests
ExpirableRows ==
  { NewRow(secret, text, salt) : secret \in Secrets, text \in StepTexts, salt \in Salts }

C29_TooLongIs406 ==
  [][ (last'.op = "POST /" /\ last'.status \notin { 422, 500 })
      => LET content == Strip(last'.arg.content) IN
         /\ (Len(content) > SettingsMaxlength) => (last'.status = 406 /\ store' = store)
         /\ (last'.status = 406) => (Len(content) > SettingsMaxlength)
         /\ (/\ Len(content) <= SettingsMaxlength
             /\ last'.arg.text_id = Absent
             /\ last'.arg.expires = NullTime)
            => (last'.status = 200 /\ store' # store)
    ]_vars

====
